---- MODULE Spec2Model ----
(***************************************************************************)
(* A model of the trfr reader (src/src/reader.rs): the line-driven record  *)
(* reader for the output of Tandem Repeats Finder, in its two variants     *)
(* (Flag::D, the classic table, and Flag::Ngs).                            *)
(*                                                                         *)
(* Text is modelled as sequences of one-character strings, so that the     *)
(* string operations of the code (trim, starts_with, replace, split) and   *)
(* the numeric conversions (str::parse) are computed, not assumed.         *)
(* Unsigned integers are held as canonical decimal digit sequences         *)
(* (<<1, 0>> is ten, <<0>> is zero): the fields range up to 2^64 - 1,      *)
(* beyond the integers of the model checker.                               *)
(***************************************************************************)
EXTENDS Integers, Sequences, FiniteSets, TLC

VARIABLES
    flag,       \* Reader.flag: the format variant, "D" or "Ngs"
    rdr,        \* Reader.rdr: the byte source, as the sequence of its lines
    pos,        \* how many lines of rdr have been consumed
    line,       \* Reader.line
    id,         \* Reader.id
    out,        \* the items returned so far by next(), oldest first
    panicked,   \* TRUE once a call has panicked (the thread unwinds)
    toks,       \* DecodeSpec: the 17 tokens of the line under comparison
    term,       \* DecodeSpec: the line terminator of the line under comparison
    dec,        \* DecodeSpec: the outcomes of decoding, per variant
    lib         \* the Reader of src/src/lib.rs over the same source: its
                \* position, line, id, and the items its next() returned

vars == <<flag, rdr, pos, line, id, out, panicked, toks, term, dec, lib>>

----------------------------------------------------------------------------
(* Bounds of the model. *)

\* Longest input, in lines.
MaxLines == 3

\* Most calls of next() on one Reader.
MaxCalls == 4

----------------------------------------------------------------------------
(* Text: str::trim, str::starts_with, str::replace, str::split. *)

\* char::is_whitespace, on the characters the inputs are drawn from.
IsWhitespace(c) == c \in {" ", "\t", "\n", "\r"}

RECURSIVE TrimStart(_)
TrimStart(s) ==
    IF s = <<>> THEN <<>>
    ELSE IF IsWhitespace(Head(s)) THEN TrimStart(Tail(s))
    ELSE s

RECURSIVE TrimEnd(_)
TrimEnd(s) ==
    IF s = <<>> THEN <<>>
    ELSE IF IsWhitespace(s[Len(s)]) THEN TrimEnd(SubSeq(s, 1, Len(s) - 1))
    ELSE s

\* str::trim: leading and trailing whitespace removed.
Trim(s) == TrimEnd(TrimStart(s))

\* str::starts_with.
StartsWith(s, p) == Len(s) >= Len(p) /\ SubSeq(s, 1, Len(p)) = p

\* str::replace(pat, ""): every non-overlapping occurrence of pat removed,
\* scanning from the left.
RECURSIVE Replace(_, _)
Replace(s, pat) ==
    IF s = <<>> THEN <<>>
    ELSE IF StartsWith(s, pat)
         THEN Replace(SubSeq(s, Len(pat) + 1, Len(s)), pat)
         ELSE <<Head(s)>> \o Replace(Tail(s), pat)

\* The index of the first c in s, 0 when there is none.
RECURSIVE FindFrom(_, _, _)
FindFrom(s, c, i) ==
    IF i > Len(s) THEN 0
    ELSE IF s[i] = c THEN i
    ELSE FindFrom(s, c, i + 1)

\* str::split(c).collect(): the pieces between the occurrences of c; a string
\* without c is one piece, the empty string included.
RECURSIVE Split(_, _)
Split(s, c) ==
    LET i == FindFrom(s, c, 1) IN
    IF i = 0 THEN <<s>>
    ELSE <<SubSeq(s, 1, i - 1)>> \o Split(SubSeq(s, i + 1, Len(s)), c)

\* The inverse of Split: the pieces joined by c.
RECURSIVE Join(_, _)
Join(ts, c) ==
    IF ts = <<>> THEN <<>>
    ELSE IF Len(ts) = 1 THEN ts[1]
    ELSE ts[1] \o <<c>> \o Join(Tail(ts), c)

----------------------------------------------------------------------------
(* Numbers: str::parse::<usize | u32 | u16 | u8 | f32>. *)

DigitOf(c) ==
    CASE c = "0" -> 0 [] c = "1" -> 1 [] c = "2" -> 2 [] c = "3" -> 3
      [] c = "4" -> 4 [] c = "5" -> 5 [] c = "6" -> 6 [] c = "7" -> 7
      [] c = "8" -> 8 [] c = "9" -> 9

IsDigit(c) == c \in {"0", "1", "2", "3", "4", "5", "6", "7", "8", "9"}

\* A digit sequence without its leading zeros; zero is <<0>>.
RECURSIVE Canon(_)
Canon(ds) ==
    IF Len(ds) > 1 /\ ds[1] = 0 THEN Canon(Tail(ds)) ELSE ds

\* a > b, for canonical digit sequences.
RECURSIVE LexGt(_, _)
LexGt(a, b) ==
    IF a = <<>> THEN FALSE
    ELSE IF a[1] # b[1] THEN a[1] > b[1]
    ELSE LexGt(Tail(a), Tail(b))

DigitsGt(a, b) ==
    \/ Len(a) > Len(b)
    \/ Len(a) = Len(b) /\ LexGt(a, b)

\* The largest value of each unsigned type of Record.
U8Max == <<2, 5, 5>>
U16Max == <<6, 5, 5, 3, 5>>
U32Max == <<4, 2, 9, 4, 9, 6, 7, 2, 9, 5>>
UsizeMax == <<1, 8, 4, 4, 6, 7, 4, 4, 0, 7, 3, 7, 0, 9, 5, 5, 1, 6, 1, 5>>

\* MaxOf with 16 bits for the 8-bit fields.
MaxOfU8AsU16(ty) ==
    CASE ty = "u8" -> U16Max
      [] ty = "u16" -> U16Max
      [] ty = "u32" -> U32Max
      [] ty = "usize" -> UsizeMax

\* uN::MAX of the type a token is parsed into (usize of 64 bits).
MaxOf(ty) ==
    CASE ty = "u8" -> U8Max
      [] ty = "u16" -> U16Max
      [] ty = "u32" -> U32Max
      [] ty = "usize" -> UsizeMax

\* The digit loop of the unsigned from_str: each character must be a digit,
\* and the value so far (acc * 10 + digit) must fit the type.
RECURSIVE IntDigits(_, _, _)

\* The loop's step once the digit is added: nxt is acc * 10 + digit.
IntDigitsFits(s, nxt, max) ==
    IF DigitsGt(nxt, max) THEN [ok |-> FALSE, diag |-> "PosOverflow"]
    ELSE IntDigits(Tail(s), nxt, max)

IntDigits(s, acc, max) ==
    IF s = <<>> THEN [ok |-> TRUE, val |-> acc]
    ELSE IF ~IsDigit(Head(s)) THEN [ok |-> FALSE, diag |-> "InvalidDigit"]
    ELSE IntDigitsFits(s, Canon(Append(acc, DigitOf(Head(s)))), max)

\* str::parse::<uN>: an optional leading '+', then one or more digits.
ParseInt(s, ty) ==
    IF s = <<>> THEN [ok |-> FALSE, diag |-> "Empty"]
    ELSE IF s = <<"+">> THEN [ok |-> FALSE, diag |-> "InvalidDigit"]
    ELSE IntDigits(IF Head(s) = "+" THEN Tail(s) ELSE s, <<0>>, MaxOf(ty))

\* The longest prefix of s made of digits, as digits.
RECURSIVE TakeDigits(_)
TakeDigits(s) ==
    IF s # <<>> /\ IsDigit(Head(s))
    THEN <<DigitOf(Head(s))>> \o TakeDigits(Tail(s))
    ELSE <<>>

\* The value of a short digit sequence.
RECURSIVE DigitsToInt(_)
DigitsToInt(ds) ==
    IF ds = <<>> THEN 0
    ELSE 10 * DigitsToInt(SubSeq(ds, 1, Len(ds) - 1)) + ds[Len(ds)]

\* How many zeros end a digit sequence.
RECURSIVE TrailingZeros(_)
TrailingZeros(ds) ==
    IF ds # <<>> /\ ds[Len(ds)] = 0
    THEN 1 + TrailingZeros(SubSeq(ds, 1, Len(ds) - 1))
    ELSE 0

\* ASCII lower case of the letters of "nan", "inf" and "infinity".
LowerChar(c) ==
    CASE c = "N" -> "n" [] c = "A" -> "a" [] c = "I" -> "i"
      [] c = "F" -> "f" [] c = "T" -> "t" [] c = "Y" -> "y"
      [] OTHER -> c

Lower(s) == [i \in 1..Len(s) |-> LowerChar(s[i])]

\* A finite f32, identified by the decimal it was read from: sig * 10^e with
\* sig canonical and without trailing zeros (rounding to 24 bits is not
\* modelled).
FNumOf(neg, sig, e) ==
    IF sig = <<>> \/ sig = <<0>>
    THEN [cls |-> "num", neg |-> neg, mant |-> <<0>>, exp |-> 0]
    ELSE [cls |-> "num", neg |-> neg, mant |-> sig, exp |-> e]

\* The f32 read from the digits of a decimal and its power of ten.
FNum(neg, digits, e) ==
    FNumOf(neg,
           Canon(SubSeq(digits, 1, Len(digits) - TrailingZeros(digits))),
           e + TrailingZeros(digits))

FZero == [cls |-> "num", neg |-> FALSE, mant |-> <<0>>, exp |-> 0]

FloatInvalid == [ok |-> FALSE, diag |-> "Invalid"]

\* The words str::parse::<f32> reads besides decimals, in any case.
FloatSpecial(neg, body) ==
    IF Lower(body) = <<"n", "a", "n">>
    THEN [ok |-> TRUE,
          val |-> [cls |-> "nan", neg |-> neg, mant |-> <<0>>, exp |-> 0]]
    ELSE IF Lower(body) \in {<<"i", "n", "f">>,
                             <<"i", "n", "f", "i", "n", "i", "t", "y">>}
    THEN [ok |-> TRUE,
          val |-> [cls |-> "inf", neg |-> neg, mant |-> <<0>>, exp |-> 0]]
    ELSE FloatInvalid

\* The exponent's digits e2 (all of the rest of the token), read as ed.
FloatExponentValue(neg, digits, nfrac, eneg, e2, ed) ==
    IF ed # <<>> /\ Len(ed) = Len(e2)
    THEN [ok |-> TRUE,
          val |-> FNum(neg, digits,
                       (IF eneg THEN 0 - DigitsToInt(ed) ELSE DigitsToInt(ed))
                       - nfrac)]
    ELSE FloatInvalid

\* The exponent after 'e': an optional sign, then digits.
FloatExponent(neg, digits, nfrac, e1) ==
    IF e1 # <<>> /\ Head(e1) \in {"+", "-"}
    THEN FloatExponentValue(neg, digits, nfrac, Head(e1) = "-", Tail(e1),
                            TakeDigits(Tail(e1)))
    ELSE FloatExponentValue(neg, digits, nfrac, FALSE, e1, TakeDigits(e1))

\* The token after its mantissa (integer digits ip, fraction digits fp): r2
\* is what is left of it.
FloatAfterMantissa(neg, body, ip, fp, r2) ==
    IF Len(ip) + Len(fp) = 0 THEN FloatSpecial(neg, body)
    ELSE IF r2 = <<>>
    THEN [ok |-> TRUE, val |-> FNum(neg, ip \o fp, 0 - Len(fp))]
    ELSE IF Head(r2) \in {"e", "E"}
    THEN FloatExponent(neg, ip \o fp, Len(fp), Tail(r2))
    ELSE FloatInvalid

\* The fraction digits fp read after the '.', of the text afterdot.
FloatAfterFraction(neg, body, ip, afterdot, fp) ==
    FloatAfterMantissa(neg, body, ip, fp,
                       SubSeq(afterdot, Len(fp) + 1, Len(afterdot)))

\* The token after its integer digits ip: r1 is what is left of it.
FloatAfterInteger(neg, body, ip, r1) ==
    IF r1 # <<>> /\ Head(r1) = "."
    THEN FloatAfterFraction(neg, body, ip, Tail(r1), TakeDigits(Tail(r1)))
    ELSE FloatAfterMantissa(neg, body, ip, <<>>, r1)

\* The token after its sign.
FloatUnsigned(neg, body, ip) ==
    FloatAfterInteger(neg, body, ip, SubSeq(body, Len(ip) + 1, Len(body)))

\* str::parse::<f32>: an optional sign, then either digits with an optional
\* '.' (at least one digit) and an optional exponent, or one of "nan", "inf",
\* "infinity" in any case.
ParseFloat(s) ==
    IF s = <<>> THEN [ok |-> FALSE, diag |-> "Empty"]
    ELSE IF Head(s) \in {"+", "-"}
    THEN FloatUnsigned(Head(s) = "-", Tail(s), TakeDigits(Tail(s)))
    ELSE FloatUnsigned(FALSE, s, TakeDigits(s))

\* f32's PartialEq: NaN equals nothing, and -0.0 equals 0.0.
F32Eq(a, b) ==
    /\ a.cls # "nan"
    /\ b.cls # "nan"
    /\ \/ a = b
       \/ a.cls = "num" /\ b.cls = "num" /\ a.mant = <<0>> /\ b.mant = <<0>>

----------------------------------------------------------------------------
(* Record (src/src/record.rs) and the errors (src/src/error.rs). *)

\* Record::default(): every number zero, every string empty.
RecordDefault ==
    [seq_id |-> <<>>, start |-> <<0>>, end |-> <<0>>, period |-> <<0>>,
     copy_number |-> FZero, consensus_pattern_size |-> <<0>>,
     perc_matches |-> <<0>>, perc_indels |-> <<0>>,
     alignment_score |-> <<0>>, perc_a |-> <<0>>, perc_c |-> <<0>>,
     perc_g |-> <<0>>, perc_t |-> <<0>>, entropy |-> FZero,
     consensus_pattern |-> <<>>, repeat_seq |-> <<>>]

\* The derived PartialEq of Record: field by field.
RecordEq(a, b) ==
    /\ \A f \in DOMAIN a \ {"copy_number", "entropy"} : a[f] = b[f]
    /\ F32Eq(a.copy_number, b.copy_number)
    /\ F32Eq(a.entropy, b.entropy)

\* From<ParseIntError> and From<ParseFloatError> for Error.
FromParseIntError(diag) == [kind |-> "Int", diag |-> diag]
FromParseFloatError(diag) == [kind |-> "Float", diag |-> diag]

\* fmt::Display for Error: the text, as its pieces.
Display(e) ==
    CASE e.kind = "Io" -> <<"I/O error - ", e.diag>>
      [] e.kind = "Int" -> <<"parsing integer error - ", e.diag>>
      [] e.kind = "Float" -> <<"parsing float error - ", e.diag>>
      [] e.kind = "Parser" -> <<"parser error - ", e.msg>>
      [] e.kind = "ReadRecord" -> <<"reading record - ", e.msg>>

----------------------------------------------------------------------------
(* parse_input_line (src/src/reader.rs). *)

\* The prefixes of the lines of the classic header that carry no data.
BoilerplatePrefixes ==
    {<<"T", "a", "n", "d", "e", "m", " ", "R", "e", "p", "e", "a", "t", "s">>,
     <<"G", "a", "r", "y", " ", "B", "e", "n", "s", "o", "n">>,
     <<"P", "r", "o", "g", "r", "a", "m">>,
     <<"B", "o", "s", "t", "o", "n">>,
     <<"V", "e", "r", "s", "i", "o", "n">>,
     <<"P", "a", "r", "a", "m", "e", "t", "e", "r", "s">>}

SequencePrefix == <<"S", "e", "q", "u", "e", "n", "c", "e">>

SequenceLabelPrefix == <<"S", "e", "q", "u", "e", "n", "c", "e", ":", " ">>

\* NumericFields with the first two columns filling each other's field.
NumericFieldsStartEndSwapped ==
    << [name |-> "end", ty |-> "usize"],
       [name |-> "start", ty |-> "usize"],
       [name |-> "period", ty |-> "u16"],
       [name |-> "copy_number", ty |-> "f32"],
       [name |-> "consensus_pattern_size", ty |-> "u16"],
       [name |-> "perc_matches", ty |-> "u8"],
       [name |-> "perc_indels", ty |-> "u8"],
       [name |-> "alignment_score", ty |-> "u32"],
       [name |-> "perc_a", ty |-> "u8"],
       [name |-> "perc_c", ty |-> "u8"],
       [name |-> "perc_g", ty |-> "u8"],
       [name |-> "perc_t", ty |-> "u8"],
       [name |-> "entropy", ty |-> "f32"] >>

\* The conversions of the 13 numeric columns, in the order the code makes
\* them, with the type of the Record field each one fills.
NumericFields ==
    << [name |-> "start", ty |-> "usize"],
       [name |-> "end", ty |-> "usize"],
       [name |-> "period", ty |-> "u16"],
       [name |-> "copy_number", ty |-> "f32"],
       [name |-> "consensus_pattern_size", ty |-> "u16"],
       [name |-> "perc_matches", ty |-> "u8"],
       [name |-> "perc_indels", ty |-> "u8"],
       [name |-> "alignment_score", ty |-> "u32"],
       [name |-> "perc_a", ty |-> "u8"],
       [name |-> "perc_c", ty |-> "u8"],
       [name |-> "perc_g", ty |-> "u8"],
       [name |-> "perc_t", ty |-> "u8"],
       [name |-> "entropy", ty |-> "f32"] >>

\* TryInt converting the failure as if it were a float's.
TryIntAsFloat(r) ==
    IF r.ok THEN r ELSE [ok |-> FALSE, err |-> FromParseFloatError(r.diag)]

\* The ? after token.parse::<uN>(): the value, or the Error the failure is
\* converted into.
TryInt(r) ==
    IF r.ok THEN r ELSE [ok |-> FALSE, err |-> FromParseIntError(r.diag)]

\* The ? after token.parse::<f32>().
TryFloat(r) ==
    IF r.ok THEN r ELSE [ok |-> FALSE, err |-> FromParseFloatError(r.diag)]

\* token.parse::<T>()? for the type of a numeric field.
ParseField(tok, ty) ==
    IF ty = "f32" THEN TryFloat(ParseFloat(tok))
    ELSE TryInt(ParseInt(tok, ty))

\* The numeric assignments from column i on: each writes its field of the
\* record, and the first failing conversion returns, leaving the fields
\* written so far in the record.
RECURSIVE AssignNumeric(_, _, _)

\* Column i, converted to r.
AssignField(elems, record, i, r) ==
    IF r.ok
    THEN AssignNumeric(elems,
                       [record EXCEPT ![NumericFields[i].name] = r.val],
                       i + 1)
    ELSE [ok |-> FALSE, err |-> r.err, record |-> record]

AssignNumeric(elems, record, i) ==
    IF i > Len(NumericFields) THEN [ok |-> TRUE, record |-> record]
    ELSE AssignField(elems, record, i,
                     ParseField(elems[i], NumericFields[i].ty))

\* line_elements.len() - 2 in usize, for a line of len elements. Below 2 the
\* subtraction overflows: a build with overflow checks panics, one without
\* wraps to 2^64 - 2 + len, which is beyond the length of any Vec.
TruncateLen(len, overflow_checks) ==
    IF len >= 2 THEN [t |-> "len", n |-> len - 2]
    ELSE IF overflow_checks THEN [t |-> "panic"]
    ELSE [t |-> "beyond"]

\* Truncate keeping the last n elements instead of the first.
TruncateKeepsLast(v, tl) ==
    IF tl.t = "len" /\ tl.n < Len(v)
    THEN SubSeq(v, Len(v) - tl.n + 1, Len(v))
    ELSE v

\* Vec::truncate: the first n elements; no effect when n is not below the
\* length.
Truncate(v, tl) ==
    IF tl.t = "len" /\ tl.n < Len(v) THEN SubSeq(v, 1, tl.n) ELSE v

\* The two string columns, after the numeric assignments a.
AssignStrings(line_elements, a) ==
    IF a.ok
    THEN [t |-> "Data",
          record |-> [a.record EXCEPT
              !.consensus_pattern = line_elements[14],
              !.repeat_seq = Trim(line_elements[15])]]
    ELSE [t |-> "Err", err |-> a.err, record |-> a.record]

\* DecodeElements taking the first 15 of 15 elements or more.
DecodeElementsAtLeast15(line_elements, record) ==
    IF Len(line_elements) >= 15
    THEN AssignStrings(line_elements, AssignNumeric(line_elements, record, 1))
    ELSE [t |-> "Err",
          err |-> [kind |-> "Parser", msg |-> "could not split into 15 elements"],
          record |-> record]

\* The slice pattern and the assignments under it: exactly 15 elements, or
\* the Parser error.
DecodeElements(line_elements, record) ==
    IF Len(line_elements) = 15
    THEN AssignStrings(line_elements, AssignNumeric(line_elements, record, 1))
    ELSE [t |-> "Err",
          err |-> [kind |-> "Parser", msg |-> "could not split into 15 elements"],
          record |-> record]

\* assert!(line_elements.len() == 15), and the decoding after it.
AssertLen15(line_elements, record) ==
    IF Len(line_elements) # 15 THEN [t |-> "Panic", record |-> record]
    ELSE DecodeElements(line_elements, record)

\* The NGS variant's removal of the two flanking columns: tl is the length
\* to truncate to.
DropFlanking(split, tl, record) ==
    IF tl.t = "panic" THEN [t |-> "Panic", record |-> record]
    ELSE AssertLen15(Truncate(split, tl), record)

\* A line of data, split on ' '.
DecodeSplit(split, record, flag_, overflow_checks) ==
    IF flag_ = "D" THEN DecodeElements(split, record)
    ELSE DropFlanking(split, TruncateLen(Len(split), overflow_checks), record)

\* The lines the classic variant drops: blank ones and the header's.
IsBlank(input) == Trim(input) = <<>>

IsBoilerplate(input) == \E p \in BoilerplatePrefixes : StartsWith(input, p)

\* parse_input_line(input, record, flag): what the line is (t), and the
\* record as the call leaves it.
\*   "Skip"  Ok(None)                a line without data
\*   "Id"    Ok(Some(Some(name)))    a line naming the sequence
\*   "Data"  Ok(Some(None))          a line of data, decoded into the record
\*   "Err"   Err(err)
\*   "Panic" the call panicked
parse_input_line(input, record, flag_, overflow_checks) ==
    IF flag_ = "D" /\ IsBlank(input)
    THEN [t |-> "Skip", record |-> record]
    ELSE IF flag_ = "D" /\ IsBoilerplate(input)
    THEN [t |-> "Skip", record |-> record]
    ELSE IF flag_ = "D" /\ StartsWith(input, SequencePrefix)
    THEN [t |-> "Id", name |-> Trim(Replace(input, SequenceLabelPrefix)),
          record |-> record]
    ELSE IF flag_ = "Ngs" /\ StartsWith(input, <<"@">>)
    THEN [t |-> "Id", name |-> Trim(Replace(input, <<"@">>)),
          record |-> record]
    ELSE DecodeSplit(Split(input, " "), record, flag_, overflow_checks)

----------------------------------------------------------------------------
(* The inputs: the lines a stream is made of. *)

\* Stands for a byte that is not valid UTF-8.
InvalidByte == "<FF>"

\* An empty line.
\*   "\n"
BlankLine ==
    <<"\n">>

\* A line of the classic header.
\*   "Version 4.09\n"
HeaderLine ==
    <<"V", "e", "r", "s", "i", "o", "n", " ", "4", ".", "0", "9", "\n">>

\* Identifier lines of the classic variant.
\*   "Sequence: chr1\n"
SequenceChr1 ==
    <<"S", "e", "q", "u", "e", "n", "c", "e", ":", " ", "c", "h", "r", "1",
      "\n">>

\*   "Sequence: chr2\n"
SequenceChr2 ==
    <<"S", "e", "q", "u", "e", "n", "c", "e", ":", " ", "c", "h", "r", "2",
      "\n">>

\* Well-formed data lines: 15 columns.
\*   "10 20 5 2.0 5 90 1 50 20 20 30 30 1.5 ACGTA ACGTAACGTA\n"
DataChr1 ==
    <<"1", "0", " ", "2", "0", " ", "5", " ", "2", ".", "0", " ", "5", " ",
      "9", "0", " ", "1", " ", "5", "0", " ", "2", "0", " ", "2", "0", " ",
      "3", "0", " ", "3", "0", " ", "1", ".", "5", " ", "A", "C", "G", "T",
      "A", " ", "A", "C", "G", "T", "A", "A", "C", "G", "T", "A", "\n">>

\*   "7 3 2 1.50 2 200 0 9 25 25 25 25 2 AC ACAC\n"
DataShort ==
    <<"7", " ", "3", " ", "2", " ", "1", ".", "5", "0", " ", "2", " ", "2",
      "0", "0", " ", "0", " ", "9", " ", "2", "5", " ", "2", "5", " ", "2",
      "5", " ", "2", "5", " ", "2", " ", "A", "C", " ", "A", "C", "A", "C",
      "\n">>

\* 15 columns, the period not a number (and the entropy neither).
\*   "10 20 x 2.0 5 90 1 50 20 20 30 30 1.y AC ACAC\n"
DataBadInt ==
    <<"1", "0", " ", "2", "0", " ", "x", " ", "2", ".", "0", " ", "5", " ",
      "9", "0", " ", "1", " ", "5", "0", " ", "2", "0", " ", "2", "0", " ",
      "3", "0", " ", "3", "0", " ", "1", ".", "y", " ", "A", "C", " ", "A",
      "C", "A", "C", "\n">>

\* 15 columns, the copy number not a number (and perc_t neither).
\*   "10 20 5 2.x 5 90 1 50 20 20 30 3x 1.5 AC ACAC\n"
DataBadFloat ==
    <<"1", "0", " ", "2", "0", " ", "5", " ", "2", ".", "x", " ", "5", " ",
      "9", "0", " ", "1", " ", "5", "0", " ", "2", "0", " ", "2", "0", " ",
      "3", "0", " ", "3", "x", " ", "1", ".", "5", " ", "A", "C", " ", "A",
      "C", "A", "C", "\n">>

\* 4 columns.
\*   "10 20 x 2.0\n"
DataFewColumns ==
    <<"1", "0", " ", "2", "0", " ", "x", " ", "2", ".", "0", "\n">>

\* DataShort with a space before the terminator: 16 columns.
\*   "7 3 2 1.50 2 200 0 9 25 25 25 25 2 AC ACAC \n"
DataTrailingSpace ==
    <<"7", " ", "3", " ", "2", " ", "1", ".", "5", "0", " ", "2", " ", "2",
      "0", "0", " ", "0", " ", "9", " ", "2", "5", " ", "2", "5", " ", "2",
      "5", " ", "2", "5", " ", "2", " ", "A", "C", " ", "A", "C", "A", "C",
      " ", "\n">>

\* A line that is not UTF-8.
\*   "10 \xFF\n"
InvalidUtf8Line ==
    <<"1", "0", " ", InvalidByte, "\n">>

\* Identifier lines of the NGS variant.
\*   "@read1\n"
NgsRead1 ==
    <<"@", "r", "e", "a", "d", "1", "\n">>

\*   "@read2\n"
NgsRead2 ==
    <<"@", "r", "e", "a", "d", "2", "\n">>

\* Well-formed data lines: 15 columns and the two flanking columns.
\*   "10 20 5 2.0 5 90 1 50 20 20 30 30 1.5 ACGTA ACGTAACGTA TT GG\n"
NgsData1 ==
    <<"1", "0", " ", "2", "0", " ", "5", " ", "2", ".", "0", " ", "5", " ",
      "9", "0", " ", "1", " ", "5", "0", " ", "2", "0", " ", "2", "0", " ",
      "3", "0", " ", "3", "0", " ", "1", ".", "5", " ", "A", "C", "G", "T",
      "A", " ", "A", "C", "G", "T", "A", "A", "C", "G", "T", "A", " ", "T",
      "T", " ", "G", "G", "\n">>

\*   "7 3 2 1.50 2 200 0 9 25 25 25 25 2 AC ACAC . .\n"
NgsDataShort ==
    <<"7", " ", "3", " ", "2", " ", "1", ".", "5", "0", " ", "2", " ", "2",
      "0", "0", " ", "0", " ", "9", " ", "2", "5", " ", "2", "5", " ", "2",
      "5", " ", "2", "5", " ", "2", " ", "A", "C", " ", "A", "C", "A", "C",
      " ", ".", " ", ".", "\n">>

\* 17 columns, the period not a number (and the entropy neither).
\*   "10 20 x 2.0 5 90 1 50 20 20 30 30 1.y AC ACAC . .\n"
NgsBadInt ==
    <<"1", "0", " ", "2", "0", " ", "x", " ", "2", ".", "0", " ", "5", " ",
      "9", "0", " ", "1", " ", "5", "0", " ", "2", "0", " ", "2", "0", " ",
      "3", "0", " ", "3", "0", " ", "1", ".", "y", " ", "A", "C", " ", "A",
      "C", "A", "C", " ", ".", " ", ".", "\n">>

\* 17 columns, the copy number not a number (and perc_t neither).
\*   "10 20 5 2.x 5 90 1 50 20 20 30 3x 1.5 AC ACAC . .\n"
NgsBadFloat ==
    <<"1", "0", " ", "2", "0", " ", "5", " ", "2", ".", "x", " ", "5", " ",
      "9", "0", " ", "1", " ", "5", "0", " ", "2", "0", " ", "2", "0", " ",
      "3", "0", " ", "3", "x", " ", "1", ".", "5", " ", "A", "C", " ", "A",
      "C", "A", "C", " ", ".", " ", ".", "\n">>

\* The lines of classic streams.
ClassicLines ==
    {BlankLine, HeaderLine, SequenceChr1, SequenceChr2, DataChr1, DataShort,
     DataBadInt, DataBadFloat, DataFewColumns, DataTrailingSpace,
     InvalidUtf8Line}

\* The lines of NGS streams: the NGS lines, and lines of the classic variant
\* (a blank line, a line of 15 columns).
NgsLines ==
    {NgsRead1, NgsRead2, NgsData1, NgsDataShort, NgsBadInt, NgsBadFloat,
     BlankLine, DataShort}

\* Lines at the edges of the format.

\* 15 columns: 13 zeros and two empty strings.
\*   "0 0 0 0 0 0 0 0 0 0 0 0 0  \n"
DataAllZero ==
    <<"0", " ", "0", " ", "0", " ", "0", " ", "0", " ", "0", " ", "0", " ",
      "0", " ", "0", " ", "0", " ", "0", " ", "0", " ", "0", " ", " ", "\n">>

\* The same with the two flanking columns: 17 columns.
\*   "0 0 0 0 0 0 0 0 0 0 0 0 0   . .\n"
NgsAllZero ==
    <<"0", " ", "0", " ", "0", " ", "0", " ", "0", " ", "0", " ", "0", " ",
      "0", " ", "0", " ", "0", " ", "0", " ", "0", " ", "0", " ", " ", " ",
      ".", " ", ".", "\n">>

\* A line of whitespace only.
\*   " \t\n"
WhitespaceLine == <<" ", "\t", "\n">>

\* Identifier lines whose label repeats the prefix.
\*   "Sequence: chr1 Sequence: 2\n"
SequenceTwice ==
    <<"S", "e", "q", "u", "e", "n", "c", "e", ":", " ", "c", "h", "r", "1",
      " ", "S", "e", "q", "u", "e", "n", "c", "e", ":", " ", "2", "\n">>

\*   "@read@1\n"
NgsReadAt == <<"@", "r", "e", "a", "d", "@", "1", "\n">>

EdgeLines(f) ==
    IF f = "D"
    THEN {DataAllZero, WhitespaceLine, SequenceTwice, SequenceChr1, DataShort}
    ELSE {NgsAllZero, WhitespaceLine, NgsReadAt, NgsRead1, NgsDataShort}

LinesOf(f) == IF f = "D" THEN ClassicLines ELSE NgsLines

\* The streams of at most n lines drawn from S.
StreamsUpTo(S, n) == UNION {[1..k -> S] : k \in 0..n}

----------------------------------------------------------------------------
(* Reader (src/src/reader.rs). *)

Flag == {"D", "Ngs"}

\* Reader::new of src/src/lib.rs: line 0, an empty id, nothing read.
LibNew == [pos |-> 0, line |-> 0, id |-> <<>>, out |-> <<>>]

\* BufRead::read_line at position p of the source: no byte at the end of
\* the stream, the next line with its terminator otherwise. A line that is
\* not UTF-8 is consumed and reported as an I/O error.
read_line(p) ==
    IF p >= Len(rdr) THEN [t |-> "eof"]
    ELSE IF \E i \in 1..Len(rdr[p + 1]) : rdr[p + 1][i] = InvalidByte
    THEN [t |-> "io"]
    ELSE [t |-> "line", buf |-> rdr[p + 1]]

\* From<io::Error> for Error.
FromIoError(diag) == [kind |-> "Io", diag |-> diag]

\* ErrorKind::ReadRecord(format!("at line {}, {}", self.line, e)): the
\* message, as the values formatted into it.
ReadRecordError(ln, e) ==
    [kind |-> "ReadRecord", msg |-> [at_line |-> ln, cause |-> Display(e)]]

\* The loop of read_record, entered with the source at position p, the line
\* counter at ln, the held identifier idv and the record in progress. The
\* result is what read_record returns (ret, with record or err) and the
\* Reader as the call leaves it (pos, line, id).
RECURSIVE ReadLoop(_, _, _, _, _)

\* MatchParsed with the identifier arm falling through to the break, as the
\* reader of src/src/lib.rs does: an identifier line ends the read.
MatchParsedIdBreaks(p, ln, idv, parsed, overflow_checks) ==
    CASE parsed.t = "Id" ->
           [ret |-> "Some", record |-> parsed.record,
            pos |-> p + 1, line |-> ln, id |-> parsed.name]
      [] parsed.t = "Skip" ->
           ReadLoop(p + 1, ln, idv, parsed.record, overflow_checks)
      [] parsed.t = "Data" ->
           [ret |-> "Some", record |-> parsed.record,
            pos |-> p + 1, line |-> ln, id |-> idv]
      [] parsed.t = "Err" ->
           [ret |-> "Err", err |-> ReadRecordError(ln, parsed.err),
            pos |-> p + 1, line |-> ln, id |-> idv]
      [] parsed.t = "Panic" ->
           [ret |-> "Panic", pos |-> p + 1, line |-> ln, id |-> idv]

\* MatchParsed returning the record of a data line without moving past the
\* line.
MatchParsedDataNotConsumed(p, ln, idv, parsed, overflow_checks) ==
    CASE parsed.t = "Id" ->
           ReadLoop(p + 1, ln, parsed.name, parsed.record, overflow_checks)
      [] parsed.t = "Skip" ->
           ReadLoop(p + 1, ln, idv, parsed.record, overflow_checks)
      [] parsed.t = "Data" ->
           [ret |-> "Some", record |-> parsed.record,
            pos |-> p, line |-> ln, id |-> idv]
      [] parsed.t = "Err" ->
           [ret |-> "Err", err |-> ReadRecordError(ln, parsed.err),
            pos |-> p + 1, line |-> ln, id |-> idv]
      [] parsed.t = "Panic" ->
           [ret |-> "Panic", pos |-> p + 1, line |-> ln, id |-> idv]

\* MatchParsed returning, for a line that failed, the record as the line
\* left it.
MatchParsedErrYieldsPartial(p, ln, idv, parsed, overflow_checks) ==
    CASE parsed.t = "Id" ->
           ReadLoop(p + 1, ln, parsed.name, parsed.record, overflow_checks)
      [] parsed.t = "Skip" ->
           ReadLoop(p + 1, ln, idv, parsed.record, overflow_checks)
      [] parsed.t = "Data" ->
           [ret |-> "Some", record |-> parsed.record,
            pos |-> p + 1, line |-> ln, id |-> idv]
      [] parsed.t = "Err" ->
           [ret |-> "Some", record |-> parsed.record,
            pos |-> p + 1, line |-> ln, id |-> idv]
      [] parsed.t = "Panic" ->
           [ret |-> "Panic", pos |-> p + 1, line |-> ln, id |-> idv]

\* MatchParsed going on with the loop after a data line, the record kept
\* for the end of the stream.
MatchParsedDataContinues(p, ln, idv, parsed, overflow_checks) ==
    CASE parsed.t = "Id" ->
           ReadLoop(p + 1, ln, parsed.name, parsed.record, overflow_checks)
      [] parsed.t = "Skip" ->
           ReadLoop(p + 1, ln, idv, parsed.record, overflow_checks)
      [] parsed.t = "Data" ->
           ReadLoop(p + 1, ln, idv, parsed.record, overflow_checks)
      [] parsed.t = "Err" ->
           [ret |-> "Err", err |-> ReadRecordError(ln, parsed.err),
            pos |-> p + 1, line |-> ln, id |-> idv]
      [] parsed.t = "Panic" ->
           [ret |-> "Panic", pos |-> p + 1, line |-> ln, id |-> idv]

\* MatchParsed with the error arm going on with the loop, the record as the
\* failed line left it: skip and continue.
MatchParsedSkipsErr(p, ln, idv, parsed, overflow_checks) ==
    CASE parsed.t = "Id" ->
           ReadLoop(p + 1, ln, parsed.name, parsed.record, overflow_checks)
      [] parsed.t = "Skip" ->
           ReadLoop(p + 1, ln, idv, parsed.record, overflow_checks)
      [] parsed.t = "Data" ->
           [ret |-> "Some", record |-> parsed.record,
            pos |-> p + 1, line |-> ln, id |-> idv]
      [] parsed.t = "Err" ->
           ReadLoop(p + 1, ln, idv, parsed.record, overflow_checks)
      [] parsed.t = "Panic" ->
           [ret |-> "Panic", pos |-> p + 1, line |-> ln, id |-> idv]

\* The match on the result of parse_input_line for line p + 1, the counter
\* being ln.
MatchParsed(p, ln, idv, parsed, overflow_checks) ==
    CASE parsed.t = "Id" ->
           ReadLoop(p + 1, ln, parsed.name, parsed.record, overflow_checks)
      [] parsed.t = "Skip" ->
           ReadLoop(p + 1, ln, idv, parsed.record, overflow_checks)
      [] parsed.t = "Data" ->
           [ret |-> "Some", record |-> parsed.record,
            pos |-> p + 1, line |-> ln, id |-> idv]
      [] parsed.t = "Err" ->
           [ret |-> "Err", err |-> ReadRecordError(ln, parsed.err),
            pos |-> p + 1, line |-> ln, id |-> idv]
      [] parsed.t = "Panic" ->
           [ret |-> "Panic", pos |-> p + 1, line |-> ln, id |-> idv]

\* AfterReadLine rewinding the source when it finds it at its end.
AfterReadLineRewinds(p, ln, idv, record, rl, overflow_checks) ==
    IF rl.t = "io"
    THEN [ret |-> "Err", err |-> FromIoError("InvalidData"),
          pos |-> p + 1, line |-> ln, id |-> idv]
    ELSE IF rl.t = "eof"
    THEN IF RecordEq(record, RecordDefault)
         THEN [ret |-> "None", pos |-> 0, line |-> ln, id |-> idv]
         ELSE [ret |-> "Some", record |-> record,
               pos |-> 0, line |-> ln, id |-> idv]
    ELSE MatchParsed(p, ln, idv,
                     parse_input_line(rl.buf, record, flag, overflow_checks),
                     overflow_checks)

\* AfterReadLine without the test for the default record at the end of the
\* stream: the record in progress is always returned.
AfterReadLineEofYields(p, ln, idv, record, rl, overflow_checks) ==
    IF rl.t = "io"
    THEN [ret |-> "Err", err |-> FromIoError("InvalidData"),
          pos |-> p + 1, line |-> ln, id |-> idv]
    ELSE IF rl.t = "eof"
    THEN [ret |-> "Some", record |-> record,
          pos |-> p, line |-> ln, id |-> idv]
    ELSE MatchParsed(p, ln, idv,
                     parse_input_line(rl.buf, record, flag, overflow_checks),
                     overflow_checks)

\* One turn of the loop after read_line returned rl, the counter being ln.
AfterReadLine(p, ln, idv, record, rl, overflow_checks) ==
    IF rl.t = "io"
    THEN [ret |-> "Err", err |-> FromIoError("InvalidData"),
          pos |-> p + 1, line |-> ln, id |-> idv]
    ELSE IF rl.t = "eof"
    THEN IF RecordEq(record, RecordDefault)
         THEN [ret |-> "None", pos |-> p, line |-> ln, id |-> idv]
         ELSE [ret |-> "Some", record |-> record,
               pos |-> p, line |-> ln, id |-> idv]
    ELSE MatchParsed(p, ln, idv,
                     parse_input_line(rl.buf, record, flag, overflow_checks),
                     overflow_checks)

ReadLoop(p, ln, idv, record, overflow_checks) ==
    AfterReadLine(p, ln + 1, idv, record, read_line(p), overflow_checks)

\* Reader::read_record: the loop, from a fresh default record.
read_record(overflow_checks) ==
    ReadLoop(pos, line, id, RecordDefault, overflow_checks)

\* ItemOf stamping the record with the identifier held when the call began,
\* not the one held when it returns.
ItemOfStaleId(r) ==
    CASE r.ret = "Some" ->
           [tag |-> "Ok", rec |-> [r.record EXCEPT !.seq_id = id],
            at |-> r.pos]
      [] r.ret = "None" -> [tag |-> "None", at |-> r.pos]
      [] r.ret = "Err" -> [tag |-> "Err", err |-> r.err, at |-> r.pos]

\* The item next() returns for the result r of read_record. `at` notes how
\* many lines of the source had been consumed when the call returned: the
\* line an Ok or an Err item comes from is line `at` of the stream.
ItemOf(r) ==
    CASE r.ret = "Some" ->
           [tag |-> "Ok", rec |-> [r.record EXCEPT !.seq_id = r.id],
            at |-> r.pos]
      [] r.ret = "None" -> [tag |-> "None", at |-> r.pos]
      [] r.ret = "Err" -> [tag |-> "Err", err |-> r.err, at |-> r.pos]

\* The line counter as next() leaves it: one more after a record.
LineAfter(r) == IF r.ret = "Some" THEN r.line + 1 ELSE r.line

\* Return clearing the held identifier once a record is returned.
ReturnClearsId(r) ==
    /\ pos' = r.pos
    /\ id' = IF r.ret = "Some" THEN <<>> ELSE r.id
    /\ line' = LineAfter(r)
    /\ IF r.ret = "Panic"
       THEN panicked' = TRUE /\ out' = out
       ELSE panicked' = FALSE /\ out' = Append(out, ItemOf(r))

\* What next() does with the result r of read_record. A panic in
\* read_record unwinds the caller: nothing is returned.
Return(r) ==
    /\ pos' = r.pos
    /\ id' = r.id
    /\ line' = LineAfter(r)
    /\ IF r.ret = "Panic"
       THEN panicked' = TRUE /\ out' = out
       ELSE panicked' = FALSE /\ out' = Append(out, ItemOf(r))

\* The body of next(), the same in RecordsIter and RecordsIntoIter.
IterNext(overflow_checks) == Return(read_record(overflow_checks))

\* RecordsIter and RecordsIntoIter hold the Reader (by reference, by value)
\* and nothing else: Reader::records and Reader::into_records build them
\* without touching the Reader, so a call of next() through a new iterator
\* and one through an old iterator are the same step.

\* <RecordsIter as Iterator>::next.
RecordsIter_next ==
    /\ ~panicked
    /\ Len(out) < MaxCalls
    /\ \E overflow_checks \in BOOLEAN : IterNext(overflow_checks)
    /\ UNCHANGED <<flag, rdr, toks, term, dec, lib>>

\* <RecordsIntoIter as Iterator>::next.
RecordsIntoIter_next ==
    /\ ~panicked
    /\ Len(out) < MaxCalls
    /\ \E overflow_checks \in BOOLEAN : IterNext(overflow_checks)
    /\ UNCHANGED <<flag, rdr, toks, term, dec, lib>>

\* Reader::new over a stream of lines, in either variant.
Init ==
    /\ flag \in Flag
    /\ rdr \in StreamsUpTo(LinesOf(flag), MaxLines)
    /\ pos = 0
    /\ line = 0
    /\ id = <<>>
    /\ out = <<>>
    /\ panicked = FALSE
    /\ toks = <<>>
    /\ term = <<>>
    /\ dec = <<>>
    /\ lib = LibNew

Next ==
    \/ RecordsIter_next
    \/ RecordsIntoIter_next

Spec == Init /\ [][Next]_vars

----------------------------------------------------------------------------
(* The Reader embedded in src/src/lib.rs, which has no variant: it reads
   the classic format. *)

\* fmt::Display for the Error of lib.rs.
lib_Display(e) ==
    CASE e.kind = "Io" -> <<"I/O error - ", e.diag>>
      [] e.kind = "Int" -> <<"parsing integer error - ", e.diag>>
      [] e.kind = "Float" -> <<"parsing float error - ", e.diag>>
      [] e.kind = "Parser" -> <<"parser error - ", e.msg>>

\* The slice pattern of lib.rs and the assignments under it (the same
\* conversions as in reader.rs); Ok(None) when the elements are not 15.
lib_DecodeElements(line_elements, record) ==
    IF Len(line_elements) = 15
    THEN AssignStrings(line_elements, AssignNumeric(line_elements, record, 1))
    ELSE [t |-> "Skip", record |-> record]

\* parse_input_line(input, record) of lib.rs.
lib_parse_input_line(input, record) ==
    IF IsBlank(input) THEN [t |-> "Skip", record |-> record]
    ELSE IF IsBoilerplate(input) THEN [t |-> "Skip", record |-> record]
    ELSE IF StartsWith(input, SequencePrefix)
    THEN [t |-> "Id", name |-> Trim(Replace(input, SequenceLabelPrefix)),
          record |-> record]
    ELSE lib_DecodeElements(Split(input, " "), record)

\* ErrorKind::Parser(format!("at line {}, {}", self.line, e)).
lib_ParserError(ln, e) ==
    [kind |-> "Parser", msg |-> [at_line |-> ln, cause |-> lib_Display(e)]]

RECURSIVE lib_ReadLoop(_, _, _, _)

\* The match of lib.rs on the result of parse_input_line: Some(sequence_id)
\* sets the id when there is one and breaks in either case.
lib_MatchParsed(p, ln, idv, parsed) ==
    CASE parsed.t = "Id" ->
           [ret |-> "Some", record |-> parsed.record,
            pos |-> p + 1, line |-> ln, id |-> parsed.name]
      [] parsed.t = "Skip" ->
           lib_ReadLoop(p + 1, ln, idv, parsed.record)
      [] parsed.t = "Data" ->
           [ret |-> "Some", record |-> parsed.record,
            pos |-> p + 1, line |-> ln, id |-> idv]
      [] parsed.t = "Err" ->
           [ret |-> "Err", err |-> lib_ParserError(ln, parsed.err),
            pos |-> p + 1, line |-> ln, id |-> idv]

\* One turn of the loop of lib.rs after read_line returned rl.
lib_AfterReadLine(p, ln, idv, record, rl) ==
    IF rl.t = "io"
    THEN [ret |-> "Err", err |-> FromIoError("InvalidData"),
          pos |-> p + 1, line |-> ln, id |-> idv]
    ELSE IF rl.t = "eof"
    THEN IF RecordEq(record, RecordDefault)
         THEN [ret |-> "None", pos |-> p, line |-> ln, id |-> idv]
         ELSE [ret |-> "Some", record |-> record,
               pos |-> p, line |-> ln, id |-> idv]
    ELSE lib_MatchParsed(p, ln, idv, lib_parse_input_line(rl.buf, record))

lib_ReadLoop(p, ln, idv, record) ==
    lib_AfterReadLine(p, ln + 1, idv, record, read_line(p))

\* Reader::read_record of lib.rs.
lib_read_record == lib_ReadLoop(lib.pos, lib.line, lib.id, RecordDefault)

\* The item next() of lib.rs returns for the result r of read_record.
lib_ItemOf(r) ==
    CASE r.ret = "Some" ->
           [tag |-> "Ok", rec |-> [r.record EXCEPT !.seq_id = r.id],
            at |-> r.pos]
      [] r.ret = "None" -> [tag |-> "None", at |-> r.pos]
      [] r.ret = "Err" -> [tag |-> "Err", err |-> r.err, at |-> r.pos]

\* The body of next() of lib.rs, the same in both iterators.
lib_IterNext(r) ==
    lib' = [pos |-> r.pos,
            line |-> IF r.ret = "Some" THEN r.line + 1 ELSE r.line,
            id |-> r.id,
            out |-> Append(lib.out, lib_ItemOf(r))]

\* <RecordsIter as Iterator>::next of lib.rs.
lib_RecordsIter_next ==
    /\ Len(lib.out) < MaxCalls
    /\ lib_IterNext(lib_read_record)
    /\ UNCHANGED <<flag, rdr, pos, line, id, out, panicked, toks, term, dec>>

\* <RecordsIntoIter as Iterator>::next of lib.rs.
lib_RecordsIntoIter_next ==
    /\ Len(lib.out) < MaxCalls
    /\ lib_IterNext(lib_read_record)
    /\ UNCHANGED <<flag, rdr, pos, line, id, out, panicked, toks, term, dec>>

\* Both readers over one classic stream: Reader::new(.., Flag::D) of
\* reader.rs and Reader::new of lib.rs.
TwinLines ==
    {BlankLine, HeaderLine, SequenceChr1, DataChr1, DataShort, DataBadInt,
     DataFewColumns}

TwinInit ==
    /\ flag = "D"
    /\ rdr \in StreamsUpTo(TwinLines, MaxLines)
    /\ pos = 0
    /\ line = 0
    /\ id = <<>>
    /\ out = <<>>
    /\ panicked = FALSE
    /\ toks = <<>>
    /\ term = <<>>
    /\ dec = <<>>
    /\ lib = LibNew

TwinNext ==
    \/ RecordsIter_next
    \/ RecordsIntoIter_next
    \/ lib_RecordsIter_next
    \/ lib_RecordsIntoIter_next

TwinSpec == TwinInit /\ [][TwinNext]_vars

----------------------------------------------------------------------------
(* What the properties below say about a stream. *)

ValidUtf8(l) == \A i \in 1..Len(l) : l[i] # InvalidByte

\* parse_input_line on each line of the inputs, in each variant, from a
\* default record: computed once.
ParsedLine ==
    [f \in Flag |->
        [l \in ClassicLines \cup NgsLines \cup EdgeLines("D")
                \cup EdgeLines("Ngs") |->
            parse_input_line(l, RecordDefault, f, TRUE)]]

\* What line k of the stream is to the Reader: "Io" when read_line fails on
\* it, and otherwise "Skip", "Id", "Data" (it decodes), "Err" (it does not)
\* or "Panic".
LineClass(k) ==
    IF ValidUtf8(rdr[k]) THEN ParsedLine[flag][rdr[k]].t ELSE "Io"

LinesOfClass(c) == {k \in 1..Len(rdr) : LineClass(k) = c}

\* The record line k decodes to, and the label line k announces.
DecodedRecord(k) == ParsedLine[flag][rdr[k]].record

LabelOf(k) == ParsedLine[flag][rdr[k]].name

\* The items of out that are records, and those that are errors of decoding.
IsOk(i) == out[i].tag = "Ok"

IsDecodeErr(i) == out[i].tag = "Err" /\ out[i].err.kind = "ReadRecord"

----------------------------------------------------------------------------
(* C1 *)

\* A classic stream of one identifier line followed by data lines, blank
\* and header lines anywhere.
WellFormedClassic ==
    /\ flag = "D"
    /\ Cardinality(LinesOfClass("Id")) = 1
    /\ \A k \in 1..Len(rdr) : LineClass(k) \in {"Id", "Skip", "Data"}
    /\ \A s \in LinesOfClass("Id") : \A d \in LinesOfClass("Data") : s < d

\* The i-th data line of the stream.
NthDataLine(i) ==
    CHOOSE k \in LinesOfClass("Data") :
        Cardinality({j \in LinesOfClass("Data") : j < k}) = i - 1

\* C1: on a well-formed classic stream of one identifier line and N data
\* lines, the i-th call of next() returns, for i <= N, the record decoded
\* from the i-th data line, stamped with the label of the identifier line,
\* and every call after the N-th returns None; no call fails.
C1_ClassicYieldsDataLinesInOrder ==
    WellFormedClassic =>
        /\ ~panicked
        /\ \A i \in 1..Len(out) :
            IF i <= Cardinality(LinesOfClass("Data"))
            THEN /\ IsOk(i)
                 /\ out[i].at = NthDataLine(i)
                 /\ out[i].rec =
                      [DecodedRecord(NthDataLine(i)) EXCEPT
                          !.seq_id = LabelOf(CHOOSE s \in LinesOfClass("Id") : TRUE)]
            ELSE out[i].tag = "None"

\* Two different data lines under one identifier, read to the end.
C1_Witness ==
    /\ flag = "D"
    /\ rdr = <<SequenceChr1, DataShort, DataChr1>>
    /\ Len(out) = 3
    /\ out[1].rec.start = <<7>>
    /\ out[2].rec.start = <<1, 0>>
    /\ out[3].tag = "None"

----------------------------------------------------------------------------
(* C2 *)

\* Streams of identifier and data lines, one line longer than those of Spec:
\* long enough for a second identifier line after a yielded record.
LabelLines(f) ==
    IF f = "D"
    THEN {SequenceChr1, SequenceChr2, DataChr1, DataShort, DataBadInt}
    ELSE {NgsRead1, NgsRead2, NgsData1, NgsDataShort}

LabelInit ==
    /\ flag \in Flag
    /\ rdr \in StreamsUpTo(LabelLines(flag), MaxLines + 1)
    /\ pos = 0
    /\ line = 0
    /\ id = <<>>
    /\ out = <<>>
    /\ panicked = FALSE
    /\ toks = <<>>
    /\ term = <<>>
    /\ dec = <<>>
    /\ lib = LibNew

LabelSpec == LabelInit /\ [][Next]_vars

\* The label of the last identifier line before line k; empty when there
\* is none.
LastLabelBefore(k) ==
    IF \E j \in 1..(k - 1) : LineClass(j) = "Id"
    THEN LabelOf(CHOOSE j \in 1..(k - 1) :
            /\ LineClass(j) = "Id"
            /\ \A h \in (j + 1)..(k - 1) : LineClass(h) # "Id")
    ELSE <<>>

\* Every record yielded so far is the decoding of a data line of the
\* stream, stamped with the label of the last identifier line before it.
RecordsCarryLastLabel ==
    \A i \in 1..Len(out) :
        IsOk(i) =>
            /\ out[i].at \in 1..Len(rdr)
            /\ LineClass(out[i].at) = "Data"
            /\ out[i].rec =
                 [DecodedRecord(out[i].at) EXCEPT
                     !.seq_id = LastLabelBefore(out[i].at)]

\* A call of next() leaves the items returned before it as they were.
YieldedItemsKept ==
    /\ Len(out') >= Len(out)
    /\ \A i \in 1..Len(out) : out'[i] = out[i]

\* C2: each yielded record carries the label of the last identifier line
\* before its data line (the empty string when there is none), and no step
\* changes a record already yielded.
C2_SeqIdIsLastIdentifier ==
    []RecordsCarryLastLabel /\ [][YieldedItemsKept]_vars

\* A second identifier line after a yielded record: chr1, then chr2.
C2_Witness ==
    /\ rdr = <<SequenceChr1, DataChr1, SequenceChr2, DataShort>>
    /\ Len(out) = 2
    /\ out[1].rec.seq_id = <<"c", "h", "r", "1">>
    /\ out[2].rec.seq_id = <<"c", "h", "r", "2">>

----------------------------------------------------------------------------
(* C3 *)

\* A line the classic variant takes for data: text that is not blank, not
\* of the header and not an identifier line.
IsClassicDataLine(l) ==
    /\ ValidUtf8(l)
    /\ ~IsBlank(l)
    /\ ~IsBoilerplate(l)
    /\ ~StartsWith(l, SequencePrefix)

\* Every numeric column of the 15 tokens t converts to the type of its
\* field of Record.
AllConvert(t) ==
    /\ ParseInt(t[1], "usize").ok
    /\ ParseInt(t[2], "usize").ok
    /\ ParseInt(t[3], "u16").ok
    /\ ParseFloat(t[4]).ok
    /\ ParseInt(t[5], "u16").ok
    /\ ParseInt(t[6], "u8").ok
    /\ ParseInt(t[7], "u8").ok
    /\ ParseInt(t[8], "u32").ok
    /\ ParseInt(t[9], "u8").ok
    /\ ParseInt(t[10], "u8").ok
    /\ ParseInt(t[11], "u8").ok
    /\ ParseInt(t[12], "u8").ok
    /\ ParseFloat(t[13]).ok

\* The record the 15 tokens t stand for, column by column.
ColumnsAsRecord(t, label) ==
    [seq_id |-> label,
     start |-> ParseInt(t[1], "usize").val,
     end |-> ParseInt(t[2], "usize").val,
     period |-> ParseInt(t[3], "u16").val,
     copy_number |-> ParseFloat(t[4]).val,
     consensus_pattern_size |-> ParseInt(t[5], "u16").val,
     perc_matches |-> ParseInt(t[6], "u8").val,
     perc_indels |-> ParseInt(t[7], "u8").val,
     alignment_score |-> ParseInt(t[8], "u32").val,
     perc_a |-> ParseInt(t[9], "u8").val,
     perc_c |-> ParseInt(t[10], "u8").val,
     perc_g |-> ParseInt(t[11], "u8").val,
     perc_t |-> ParseInt(t[12], "u8").val,
     entropy |-> ParseFloat(t[13]).val,
     consensus_pattern |-> t[14],
     repeat_seq |-> TrimEnd(t[15])]

Chr1 == <<"c", "h", "r", "1">>

\* The record of the example: "10 20 5 2.0 5 90 1 50 20 20 30 30 1.5 ACGTA
\* ACGTAACGTA" under "Sequence: chr1".
ExampleRecord ==
    [seq_id |-> Chr1,
     start |-> <<1, 0>>, end |-> <<2, 0>>, period |-> <<5>>,
     copy_number |-> [cls |-> "num", neg |-> FALSE, mant |-> <<2>>, exp |-> 0],
     consensus_pattern_size |-> <<5>>,
     perc_matches |-> <<9, 0>>, perc_indels |-> <<1>>,
     alignment_score |-> <<5, 0>>,
     perc_a |-> <<2, 0>>, perc_c |-> <<2, 0>>,
     perc_g |-> <<3, 0>>, perc_t |-> <<3, 0>>,
     entropy |-> [cls |-> "num", neg |-> FALSE, mant |-> <<1, 5>>, exp |-> -1],
     consensus_pattern |-> <<"A", "C", "G", "T", "A">>,
     repeat_seq |-> <<"A", "C", "G", "T", "A", "A", "C", "G", "T", "A">>]

\* Line k, of tokens t, was answered by a record with the columns of t.
YieldedColumns(k, t) ==
    \E i \in 1..Len(out) :
        /\ IsOk(i)
        /\ out[i].at = k
        /\ out[i].rec = ColumnsAsRecord(t, out[i].rec.seq_id)
        /\ \A j \in 1..Len(out[i].rec.repeat_seq) :
              out[i].rec.repeat_seq[j] \notin {"\n", "\r"}
        /\ (rdr[k] = DataChr1 /\ k > 1 /\ rdr[k - 1] = SequenceChr1)
              => out[i].rec = ExampleRecord

ConvertibleLine(k, t) ==
    (Len(t) = 15 /\ AllConvert(t)) => YieldedColumns(k, t)

\* C3: in the classic variant, every data line read so far that has exactly
\* 15 space-separated tokens, all of which convert, was answered by a record
\* holding token 1..15 as start, end, period, copy_number,
\* consensus_pattern_size, perc_matches, perc_indels, alignment_score,
\* perc_a, perc_c, perc_g, perc_t, entropy, consensus_pattern and repeat_seq,
\* the last without the line terminator; the example line under
\* "Sequence: chr1" gives the example's record.
C3_FifteenTokensDecodeByPosition ==
    flag = "D" =>
        \A k \in 1..pos :
            IsClassicDataLine(rdr[k]) => ConvertibleLine(k, Split(rdr[k], " "))

\* The example of the specification, read.
C3_Witness ==
    /\ flag = "D"
    /\ rdr = <<SequenceChr1, DataChr1>>
    /\ Len(out) = 1
    /\ out[1].tag = "Ok"
    /\ out[1].rec.seq_id = Chr1
    /\ out[1].rec.start = <<1, 0>>
    /\ out[1].rec.end = <<2, 0>>
    /\ out[1].rec.period = <<5>>
    /\ out[1].rec.repeat_seq = <<"A", "C", "G", "T", "A", "A", "C", "G", "T", "A">>

----------------------------------------------------------------------------
(* C4 *)

\* C4: an error of decoding raised on line L of the stream (counting every
\* line from 1) says "at line L".
C4_ErrorNamesLineOfStream ==
    \A i \in 1..Len(out) :
        IsDecodeErr(i) => out[i].err.msg.at_line = out[i].at

----------------------------------------------------------------------------
(* C5 *)

\* The declared type of each numeric column's field of Record.
ColumnTypes ==
    <<"usize", "usize", "u16", "f32", "u16", "u8", "u8", "u32",
      "u8", "u8", "u8", "u8", "f32">>

Converts(t, c) ==
    IF ColumnTypes[c] = "f32" THEN ParseFloat(t[c]).ok
    ELSE ParseInt(t[c], ColumnTypes[c]).ok

\* A line the variant takes for data, and how many tokens it must have.
IsDataLine(l) ==
    IF flag = "D" THEN IsClassicDataLine(l)
    ELSE ValidUtf8(l) /\ ~StartsWith(l, <<"@">>)

TokensWanted == IF flag = "D" THEN 15 ELSE 17

\* The text that names the kind of the leftmost column of t that does not
\* convert.
LeftmostFailureText(t) ==
    IF ColumnTypes[CHOOSE c \in 1..13 :
            ~Converts(t, c) /\ \A d \in 1..(c - 1) : Converts(t, d)] = "f32"
    THEN "parsing float error - "
    ELSE "parsing integer error - "

\* Line k was answered by an error of decoding whose cause begins with
\* text, and by no record.
AnsweredByError(k, text) ==
    /\ \E i \in 1..Len(out) :
          /\ out[i].at = k
          /\ IsDecodeErr(i)
          /\ out[i].err.msg.cause[1] = text
    /\ \A i \in 1..Len(out) : IsOk(i) => out[i].at # k

BadColumnLine(k, t) ==
    (Len(t) = TokensWanted /\ \E c \in 1..13 : ~Converts(t, c))
        => AnsweredByError(k, LeftmostFailureText(t))

NumericFailuresNamed ==
    \A k \in 1..pos :
        IsDataLine(rdr[k]) => BadColumnLine(k, Split(rdr[k], " "))

\* C5: every data line read so far that has the right number of tokens and
\* a numeric token that does not convert was answered by an error, and no
\* record, whose text names an integer conversion when the leftmost such
\* token is of an integer field and a float conversion when it is of a
\* float field; and no step changes an item returned before.
C5_NumericFailureKindMatchesField ==
    []NumericFailuresNamed /\ [][YieldedItemsKept]_vars

\* A record, then a line whose copy number (and, further right, perc_t)
\* does not convert: a float error.
C5_Witness ==
    /\ flag = "D"
    /\ rdr = <<DataChr1, DataBadFloat>>
    /\ Len(out) = 2
    /\ IsOk(1)
    /\ IsDecodeErr(2)
    /\ out[2].err.msg.cause[1] = "parsing float error - "

----------------------------------------------------------------------------
(* C6 *)

\* The text of the structural error.
NotFifteenText == <<"parser error - ", "could not split into 15 elements">>

\* Line k was answered by an error of decoding whose cause is the
\* structural one, and by no record.
AnsweredByParserError(k) ==
    /\ \E i \in 1..Len(out) :
          /\ out[i].at = k
          /\ IsDecodeErr(i)
          /\ out[i].err.msg.cause = NotFifteenText
    /\ \A i \in 1..Len(out) : IsOk(i) => out[i].at # k

\* C6: in the classic variant every line read so far that is not blank, not
\* of the header and not an identifier line, and that splits on ' ' into a
\* number of tokens other than 15, was answered by the error "could not
\* split into 15 elements" (not by an integer or float error, whatever the
\* tokens are) and by no record.
C6_ClassicWrongCountIsParserError ==
    flag = "D" =>
        \A k \in 1..pos :
            (IsClassicDataLine(rdr[k]) /\ Len(Split(rdr[k], " ")) # 15)
                => AnsweredByParserError(k)

\* A line of 16 tokens and a line of 4 tokens, one of which is no number.
C6_Witness ==
    /\ flag = "D"
    /\ rdr = <<DataTrailingSpace, DataFewColumns>>
    /\ Len(out) = 2
    /\ out[1].tag = "Err" /\ out[1].at = 1
    /\ out[2].tag = "Err" /\ out[2].at = 2

----------------------------------------------------------------------------
(* C7 *)

\* The number of tokens left of n when the last two are removed.
CountAfterRemovingTwo(n) == IF n >= 2 THEN n - 2 ELSE 0

\* C7: in the NGS variant no call aborts, and every line read so far that
\* is not an identifier line and whose tokens, the last two removed, are not
\* 15, was answered by an error ReadRecord around the Parser error.
C7_NgsWrongCountIsParserError ==
    flag = "Ngs" =>
        /\ ~panicked
        /\ \A k \in 1..pos :
              (/\ ValidUtf8(rdr[k])
               /\ ~StartsWith(rdr[k], <<"@">>)
               /\ CountAfterRemovingTwo(Len(Split(rdr[k], " "))) # 15)
                  => AnsweredByParserError(k)

----------------------------------------------------------------------------
(* C8 *)
(* parse_input_line on one sequence of 17 tokens, as a line of the NGS
   variant and, its first 15 tokens, as a line of the classic variant. *)

\* The tokens a column is drawn from.
StartTokens == {<<"1", "0">>, <<"@", "1", "0">>, <<"+", "7">>}

PeriodTokens == {<<"5">>, <<"6", "5", "5", "3", "6">>}

CopyNumberTokens == {<<"2", ".", "0">>, <<"2", ".", "x">>}

RepeatSeqTokens == {<<"A", "C", "G", "T">>, <<>>, <<"A", "C", "\t">>}

LeftFlankTokens == {<<".">>, <<"G", "G", "G">>}

RightFlankTokens == {<<".">>, <<"9">>, <<>>}

\* What ends the line: "\n", "\r\n", or nothing at the end of the stream.
Terminators == {<<"\n">>, <<"\r", "\n">>, <<>>}

\* The 17 tokens, given those of the columns that vary.
TokensOf(start, period, copy_number, repeat_seq, left, right) ==
    <<start, <<"2", "0">>, period, copy_number, <<"5">>, <<"9", "0">>,
      <<"1">>, <<"5", "0">>, <<"2", "5">>, <<"2", "5">>, <<"2", "5">>,
      <<"2", "5">>, <<"1", ".", "5">>, <<"A", "C", "G", "T", "A">>,
      repeat_seq, left, right>>

TokenSequences ==
    {TokensOf(a, b, c, d, e, f) :
        a \in StartTokens, b \in PeriodTokens, c \in CopyNumberTokens,
        d \in RepeatSeqTokens, e \in LeftFlankTokens, f \in RightFlankTokens}

\* The line of the first n tokens, separated by ' ' and ended by term.
LineOf(n) == Join(SubSeq(toks, 1, n), " ") \o term

DecodedAs(f) == \E i \in 1..Len(dec) : dec[i].flag = f

\* parse_input_line(line of 15 tokens, &mut Record::default(), Flag::D).
decode_D ==
    /\ ~DecodedAs("D")
    /\ \E overflow_checks \in BOOLEAN :
          dec' = Append(dec,
                    [flag |-> "D",
                     res |-> parse_input_line(LineOf(15), RecordDefault,
                                              "D", overflow_checks)])
    /\ UNCHANGED <<flag, rdr, pos, line, id, out, panicked, toks, term, lib>>

\* parse_input_line(line of 17 tokens, &mut Record::default(), Flag::Ngs).
decode_Ngs ==
    /\ ~DecodedAs("Ngs")
    /\ \E overflow_checks \in BOOLEAN :
          dec' = Append(dec,
                    [flag |-> "Ngs",
                     res |-> parse_input_line(LineOf(17), RecordDefault,
                                              "Ngs", overflow_checks)])
    /\ UNCHANGED <<flag, rdr, pos, line, id, out, panicked, toks, term, lib>>

DecodeInit ==
    /\ toks \in TokenSequences
    /\ term \in Terminators
    /\ dec = <<>>
    /\ lib = LibNew
    /\ flag = "D"
    /\ rdr = <<>>
    /\ pos = 0
    /\ line = 0
    /\ id = <<>>
    /\ out = <<>>
    /\ panicked = FALSE

DecodeNext ==
    \/ decode_D
    \/ decode_Ngs

DecodeSpec == DecodeInit /\ [][DecodeNext]_vars

\* The line was taken for data: it was split and decoding was attempted.
TakenForData(res) == res.t \notin {"Skip", "Id"}

\* C8: when the line of the 17 tokens is a data line of the NGS variant and
\* the line of the first 15 is a data line of the classic variant, decoding
\* gives the same outcome in both: the same record on success, the same
\* error otherwise; so the 16th and 17th tokens have no influence.
C8_NgsDecodesAsClassicOnFirst15 ==
    \A a \in 1..Len(dec) : \A b \in 1..Len(dec) :
        (/\ dec[a].flag = "D"
         /\ dec[b].flag = "Ngs"
         /\ TakenForData(dec[a].res)
         /\ TakenForData(dec[b].res))
            => dec[a].res = dec[b].res

\* Both lines decoded to a record, the flanking columns being "GGG" and "9".
C8_Witness ==
    /\ Len(dec) = 2
    /\ dec[1].res.t = "Data"
    /\ dec[2].res.t = "Data"
    /\ toks[16] = <<"G", "G", "G">>
    /\ toks[17] = <<"9">>

----------------------------------------------------------------------------
(* C9 *)

\* The records returned after the error item i come from lines after the
\* line that failed.
RecordsAfterError(i) ==
    {j \in (i + 1)..Len(out) : IsOk(j) /\ out[j].at > out[i].at}

\* C9 as stated: once a call has returned an error for a line of data, no
\* later call returns a record decoded from a line after that one.
C9_ErrorsAreTerminal ==
    \A i \in 1..Len(out) : IsDecodeErr(i) => RecordsAfterError(i) = {}

\* The record of item j is the one its own line decodes to from a default
\* record: no field of it is left over from a line before.
FromOwnLineOnly(j) ==
    /\ LineClass(out[j].at) = "Data"
    /\ out[j].rec =
          [DecodedRecord(out[j].at) EXCEPT !.seq_id = out[j].rec.seq_id]

\* C9, amended: a line that fails to decode is answered by an error and by
\* no record, and the reader does not resume in the middle of a record: a
\* record returned by a later call comes from one later line alone, decoded
\* from a default record.
C9_ErrorEndsTheRecordNotTheReader ==
    /\ \A k \in 1..pos :
          LineClass(k) = "Err" =>
              /\ \E i \in 1..Len(out) : IsDecodeErr(i) /\ out[i].at = k
              /\ \A i \in 1..Len(out) : IsOk(i) => out[i].at # k
    /\ \A i \in 1..Len(out) :
          out[i].tag = "Err" =>
              \A j \in (i + 1)..Len(out) :
                  IsOk(j) => (out[j].at > out[i].at /\ FromOwnLineOnly(j))

\* A line whose period is no number, then a line that decodes: the error,
\* then the record of the second line.
C9_Witness ==
    /\ flag = "D"
    /\ rdr = <<DataBadInt, DataChr1>>
    /\ Len(out) = 2
    /\ IsDecodeErr(1)
    /\ IsOk(2)
    /\ out[2].at = 2

----------------------------------------------------------------------------
(* C10 *)

\* Every call made so far returned None.
OnlyNone == \A i \in 1..Len(out) : out[i].tag = "None"

\* C10: on a stream of no lines, in either variant, every call returns None
\* and none aborts; on a classic stream of blank, header and identifier
\* lines only, every call returns None; and a record is only ever returned
\* for a line of data, never for an identifier line.
C10_NoDataLinesYieldNothing ==
    /\ rdr = <<>> => (OnlyNone /\ ~panicked)
    /\ (flag = "D" /\ \A k \in 1..Len(rdr) : LineClass(k) \in {"Skip", "Id"})
          => OnlyNone
    /\ \A i \in 1..Len(out) :
          IsOk(i) => (out[i].at >= 1 /\ LineClass(out[i].at) = "Data")

\* A header line, an identifier line and a blank line, read to the end.
C10_Witness ==
    /\ flag = "D"
    /\ rdr = <<HeaderLine, SequenceChr1, BlankLine>>
    /\ pos = 3
    /\ out = <<[tag |-> "None", at |-> 3]>>

----------------------------------------------------------------------------
(* C11 *)

\* Reader::new over a stream of the lines at the edges of the format.
EdgeInit ==
    /\ flag \in Flag
    /\ rdr \in StreamsUpTo(EdgeLines(flag), MaxLines)
    /\ pos = 0
    /\ line = 0
    /\ id = <<>>
    /\ out = <<>>
    /\ panicked = FALSE
    /\ toks = <<>>
    /\ term = <<>>
    /\ dec = <<>>
    /\ lib = LibNew

EdgeSpec == EdgeInit /\ [][Next]_vars

\* C11: no record yielded equals the default record (every number 0, every
\* string empty), and every record yielded is the decoding of one data line.
C11_SentinelNeverYielded ==
    \A i \in 1..Len(out) :
        IsOk(i) =>
            /\ ~RecordEq(out[i].rec, RecordDefault)
            /\ out[i].at \in 1..Len(rdr)
            /\ LineClass(out[i].at) = "Data"

----------------------------------------------------------------------------
(* C12 *)

\* C12: in both variants a line read so far that is empty or of whitespace
\* only produced no record and no error, and did not abort the call.
C12_BlankLinesDiscarded ==
    \A k \in 1..pos :
        (ValidUtf8(rdr[k]) /\ Trim(rdr[k]) = <<>>) =>
            /\ \A i \in 1..Len(out) :
                  out[i].tag \in {"Ok", "Err"} => out[i].at # k
            /\ ~(panicked /\ pos = k)

----------------------------------------------------------------------------
(* C13 *)

\* The prefix of an identifier line of the variant, and the one removed.
IdentifierMark == IF flag = "D" THEN SequencePrefix ELSE <<"@">>

LeadingPrefix == IF flag = "D" THEN SequenceLabelPrefix ELSE <<"@">>

\* l without its leading prefix, once, and trimmed.
LabelAfterPrefix(l) ==
    IF StartsWith(l, LeadingPrefix)
    THEN Trim(SubSeq(l, Len(LeadingPrefix) + 1, Len(l)))
    ELSE Trim(l)

IdentifierLinesRead ==
    {k \in 1..pos : ValidUtf8(rdr[k]) /\ StartsWith(rdr[k], IdentifierMark)}

\* C13: the held identifier is the text of the last identifier line read,
\* without its leading prefix (removed once) and trimmed; occurrences of
\* the prefix further in the label are kept.
C13_LabelIsLineWithoutLeadingPrefix ==
    \A k \in IdentifierLinesRead :
        (\A h \in IdentifierLinesRead : h <= k) =>
            id = LabelAfterPrefix(rdr[k])

----------------------------------------------------------------------------
(* C14 *)

\* A call reads at least one line, or finds the source at its end.
ReadsOnward == pos' > pos \/ (pos = Len(rdr) /\ pos' = pos)

\* No call reads past the end of the source, and when more calls have
\* returned than the stream has lines, one of the first Len(rdr) + 1
\* returned None.
NoneWithinLinesPlusOne ==
    /\ pos <= Len(rdr)
    /\ Len(out) > Len(rdr) =>
          \E i \in 1..(Len(rdr) + 1) : out[i].tag = "None"

----------------------------------------------------------------------------
(* C15 *)

\* The lines read so far on which decoding failed after it had assigned
\* some field of the record in progress.
PartiallyDecodedLines ==
    {k \in 1..pos :
        LineClass(k) = "Err" /\ ~RecordEq(DecodedRecord(k), RecordDefault)}

\* C15: a line on which decoding failed after some fields were assigned was
\* answered by an error; no record was yielded for it, by that call or a
\* later one; and every record yielded is the decoding of its own data line
\* from a default record, so nothing of the failed line is in it.
C15_PartialRecordsNeverEscape ==
    \A k \in PartiallyDecodedLines :
        /\ \E i \in 1..Len(out) : IsDecodeErr(i) /\ out[i].at = k
        /\ \A j \in 1..Len(out) :
              IsOk(j) => (out[j].at # k /\ FromOwnLineOnly(j))

\* A line that fails at its period, start and end already assigned; then
\* the record of the next line, then the end of the stream.
C15_Witness ==
    /\ flag = "D"
    /\ rdr = <<DataBadInt, DataShort>>
    /\ DecodedRecord(1).start = <<1, 0>>
    /\ Len(out) = 3
    /\ IsDecodeErr(1)
    /\ IsOk(2)
    /\ out[3].tag = "None"

----------------------------------------------------------------------------
(* C16 *)
(* parse_input_line on a line one numeric column of which holds a number at
   the edge of a width. *)

\* Numbers at the edges of the widths: the token, its value, and the
\* number of bits an unsigned integer needs to hold it.
WidthCases ==
    {
    [tok |-> <<"1", "0", "1">>,
      val |-> <<1, 0, 1>>,
      bits |-> 8],
     [tok |-> <<"2", "5", "5">>,
      val |-> <<2, 5, 5>>,
      bits |-> 8],
     [tok |-> <<"2", "5", "6">>,
      val |-> <<2, 5, 6>>,
      bits |-> 16],
     [tok |-> <<"6", "5", "5", "3", "5">>,
      val |-> <<6, 5, 5, 3, 5>>,
      bits |-> 16],
     [tok |-> <<"6", "5", "5", "3", "6">>,
      val |-> <<6, 5, 5, 3, 6>>,
      bits |-> 32],
     [tok |-> <<"4", "2", "9", "4", "9", "6", "7", "2", "9", "5">>,
      val |-> <<4, 2, 9, 4, 9, 6, 7, 2, 9, 5>>,
      bits |-> 32],
     [tok |-> <<"4", "2", "9", "4", "9", "6", "7", "2", "9", "6">>,
      val |-> <<4, 2, 9, 4, 9, 6, 7, 2, 9, 6>>,
      bits |-> 64],
     [tok |-> <<"1", "8", "4", "4", "6", "7", "4", "4", "0", "7", "3", "7", "0", "9", "5", "5", "1", "6", "1", "5">>,
      val |-> <<1, 8, 4, 4, 6, 7, 4, 4, 0, 7, 3, 7, 0, 9, 5, 5, 1, 6, 1, 5>>,
      bits |-> 64],
     [tok |-> <<"1", "8", "4", "4", "6", "7", "4", "4", "0", "7", "3", "7", "0", "9", "5", "5", "1", "6", "1", "6">>,
      val |-> <<1, 8, 4, 4, 6, 7, 4, 4, 0, 7, 3, 7, 0, 9, 5, 5, 1, 6, 1, 6>>,
      bits |-> 65]}

\* A line that decodes, its start after its end and perc_matches at 200,
\* with the flanking columns.
\*   "7 3 2 1.50 2 200 0 9 25 25 25 25 2 AC ACAC . ."
BaseTokens ==
    <<<<"7">>, <<"3">>, <<"2">>, <<"1", ".", "5", "0">>, <<"2">>,
      <<"2", "0", "0">>, <<"0">>, <<"9">>, <<"2", "5">>, <<"2", "5">>,
      <<"2", "5">>, <<"2", "5">>, <<"2">>, <<"A", "C">>,
      <<"A", "C", "A", "C">>, <<".">>, <<".">>>>

WidthInit ==
    /\ toks \in {[BaseTokens EXCEPT ![c] = w.tok] :
                    c \in 1..13, w \in WidthCases}
    /\ term = <<"\n">>
    /\ dec = <<>>
    /\ lib = LibNew
    /\ flag = "D"
    /\ rdr = <<>>
    /\ pos = 0
    /\ line = 0
    /\ id = <<>>
    /\ out = <<>>
    /\ panicked = FALSE

WidthSpec == WidthInit /\ [][DecodeNext]_vars

\* The width in bits of the integer field of each column; 0 for the two
\* float columns.
ColumnBits == <<64, 64, 16, 0, 16, 8, 8, 32, 8, 8, 8, 8, 0>>

ColumnNames ==
    <<"start", "end", "period", "copy_number", "consensus_pattern_size",
      "perc_matches", "perc_indels", "alignment_score", "perc_a", "perc_c",
      "perc_g", "perc_t", "entropy">>

\* The integer columns of toks that hold a number too wide for their field.
TooWide ==
    {c \in 1..13 :
        /\ ColumnBits[c] > 0
        /\ \E w \in WidthCases : toks[c] = w.tok /\ w.bits > ColumnBits[c]}

\* Each integer field holds the value of its column's token.
ValuesKept(rec) ==
    \A c \in 1..13 : \A w \in WidthCases :
        (ColumnBits[c] > 0 /\ toks[c] = w.tok) => rec[ColumnNames[c]] = w.val

\* C16: a line whose numbers fit the widths of their fields decodes, each
\* integer field holding the value of its token, whether or not the values
\* are plausible (a percentage of 101 to 255, a start after the end); a
\* number too wide for its integer field (256 in 8 bits, 65536 in 16,
\* 2^32 in 32) fails with the integer error for overflow.
C16_RejectedByWidthOnly ==
    \A a \in 1..Len(dec) :
        IF TooWide = {}
        THEN dec[a].res.t = "Data" /\ ValuesKept(dec[a].res.record)
        ELSE /\ dec[a].res.t = "Err"
             /\ dec[a].res.err = [kind |-> "Int", diag |-> "PosOverflow"]

\* perc_a at 256: the integer error, in both variants.
C16_Witness ==
    /\ toks[9] = <<"2", "5", "6">>
    /\ Len(dec) = 2
    /\ dec[1].res.t = "Err"
    /\ dec[2].res.t = "Err"

----------------------------------------------------------------------------
(* C17 *)

\* The identifier lines a step reads: those after pos, up to pos'.
IdentifierLinesOfStep ==
    {k \in (pos + 1)..pos' : LineClass(k) = "Id"}

\* A step changes the held identifier only by reading identifier lines,
\* and then to the label of the last of them; it leaves the variant alone.
IdFollowsIdentifierLines ==
    /\ flag' = flag
    /\ IF IdentifierLinesOfStep = {}
       THEN id' = id
       ELSE \E k \in IdentifierLinesOfStep :
               /\ \A h \in IdentifierLinesOfStep : h <= k
               /\ id' = LabelOf(k)

\* C17: the held identifier changes only when an identifier line is read;
\* calls that read blank, header and data lines (decoded or failing), reach
\* the end of the stream or return a record leave it as it was; and no
\* call changes the variant.
C17_IdChangedOnlyByIdentifierLines ==
    [][IdFollowsIdentifierLines]_vars

\* The identifier held through a record, a failing line and the end of the
\* stream.
C17_Witness ==
    /\ flag = "D"
    /\ rdr = <<SequenceChr1, DataChr1, DataBadInt>>
    /\ Len(out) = 4
    /\ IsOk(1)
    /\ IsDecodeErr(2)
    /\ out[3].tag = "None"
    /\ id = Chr1

----------------------------------------------------------------------------
(* C18 *)

\* Two items are the same outcome: both None, both an error, or both the
\* same record.
SameOutcome(a, b) ==
    /\ a.tag = b.tag
    /\ a.tag = "Ok" => a.rec = b.rec

\* C18: on a classic stream the reader of lib.rs and the reader of
\* reader.rs with Flag::D return the same outcomes call by call: as far as
\* both have been called, the i-th items are both None, both an error, or
\* both the same record with the same seq_id.
C18_TwinReadersAgree ==
    \A i \in 1..Len(out) :
        i <= Len(lib.out) => SameOutcome(out[i], lib.out[i])

----------------------------------------------------------------------------
(* C19 *)

\* After an item None every item is None; None is returned only with the
\* source at its end; and no two records come from the same line.
ExhaustedForGood ==
    /\ \A i \in 1..Len(out) :
          out[i].tag = "None" =>
              /\ out[i].at = Len(rdr)
              /\ \A j \in (i + 1)..Len(out) : out[j].tag = "None"
    /\ \A i \in 1..Len(out) : \A j \in 1..Len(out) :
          (IsOk(i) /\ IsOk(j) /\ i # j) => out[i].at # out[j].at

\* C19: once a call has returned None, every later call on the Reader,
\* through either iterator, returns None, and no record is yielded twice.
C19_ExhaustionIsPermanent ==
    []ExhaustedForGood /\ [][Len(out') >= Len(out)]_vars

\* One record, then None three times.
C19_Witness ==
    /\ rdr = <<DataChr1>>
    /\ Len(out) = 4
    /\ IsOk(1)
    /\ \A i \in 2..4 : out[i].tag = "None"

----------------------------------------------------------------------------
(* C20 *)

\* The item a step returns.
NewItem == out'[Len(out')]

\* The lines from a + 1 to b are all lines without data.
NoDataBetween(a, b) ==
    \A k \in (a + 1)..b : LineClass(k) \in {"Skip", "Id"}

\* A step that returns a record has read that record's data line itself,
\* after lines without data only; a step that reaches the end of the stream
\* returns None.
RecordFromOwnCall ==
    Len(out') = Len(out) + 1 =>
        /\ NewItem.tag = "Ok" =>
              /\ pos' > pos
              /\ NewItem.at = pos'
              /\ LineClass(pos') = "Data"
              /\ NoDataBetween(pos, pos' - 1)
        /\ NoDataBetween(pos, Len(rdr)) =>
              (NewItem.tag = "None" /\ pos' = Len(rdr))

\* C20: read_record never returns a record from its end-of-stream branch:
\* a call that observes the end of the stream returns None, and every
\* record is returned by the call that read its data line.
C20_EndOfStreamYieldsNone ==
    [][RecordFromOwnCall]_vars

\* A record, then the end of the stream behind a blank line.
C20_Witness ==
    /\ flag = "D"
    /\ rdr = <<DataChr1, BlankLine>>
    /\ out = <<[tag |-> "Ok",
                rec |-> [DecodedRecord(1) EXCEPT !.seq_id = <<>>],
                at |-> 1],
               [tag |-> "None", at |-> 2]>>

====
